---- MODULE Spec2Model ----
\* Weather Station API (src/src/app.py): the relational store (stations,
\* readings), the five HTTP routes and the demo handler, as a state machine.
\*
\* Conventions
\*   - temperatures are integers in hundredths of a degree (Numeric(5,2));
\*   - time is in hours; the database clock and the application clock are one
\*     clock (no skew, database session in UTC);
\*   - uuid4 station ids, os.urandom keys and bcrypt salts are opaque tokens
\*     1..n, each drawn fresh (a collision of 122, 192 or 128 random bits
\*     is not modelled): a committed station takes the smallest unused
\*     token, a rolled-back one the token past all stations;
\*   - Station.created_at is written by the database and read by no route;
\*     it is left out of the station row;
\*   - the store is reachable: the only store errors are the ones the column
\*     types raise (varchar(255), numeric(5,2), non-numeric text);
\*   - a JSON value that may be missing is a record with a "kind" field;
\*   - requests are served one at a time: a handler runs as one step and
\*     leaves the request and its response in flight until the response is
\*     returned to the client.
EXTENDS Integers, Sequences, FiniteSets, TLC

\* ---------------------------------------------------------------- bounds
MaxStations == 2
MaxReadings == 3

\* ------------------------------------------------------ program constants
WindowHours == 24
NumericMax == 99999
VarcharMax == 255

\* Time runs over two windows: a reading is then newer than the window's
\* start, exactly at it, or older than it
Horizon == 2 * WindowHours

\* ------------------------------------------------------------ input sets
StationIds == 1..MaxStations
Keys == 1..(MaxStations + 1)
Salts == 1..(MaxStations + 1)
\* -0.02 and 0.05 average to 0.015 (a quotient of the form x.xx5); two
\* readings of -0.02 and one of 0.05 average to 0.0033; 1000.00 does not fit
\* numeric(5,2)
Temps == {0 - 2, 5, NumericMax + 1}

Absent == [kind |-> "absent", v |-> 0]
Str(n) == [kind |-> "string", v |-> n]
Num(n) == [kind |-> "number", v |-> n]

\* name / location_text: a string is modelled by its length
NameInputs == {Absent, Str(0), Str(1), Str(VarcharMax + 1)}
LocationInputs == {Absent, Str(VarcharMax + 1)}
\* x-api-key header: Str(0) is the empty header, Str(k) the key token k
ApiKeyInputs == {Absent, Str(0)} \cup {Str(k) : k \in 1..MaxStations}
\* station_id of the body: missing/null, or the uuid s
StationIdInputs == {Absent} \cup {Str(s) : s \in StationIds}
\* temperature_celsius: missing/null, a non-numeric string, or a number
TempInputs == {Absent, Str(0)} \cup {Num(t) : t \in Temps}

\* stations : station_id -> row of table stations
\* readings : table readings in insertion order
\* clock    : now(), in hours
\* issued   : station_id -> the plaintext key its creation response carried
\*            (what the clients know; not part of the store)
\* req      : the request being served (op = "none" when there is none)
\* resp     : its response, HTTP status and JSON body, until it is returned
VARIABLES stations, readings, clock, issued, req, resp

vars == <<stations, readings, clock, issued, req, resp>>

\* ------------------------------------------------------------ Python / SQL
\* `not x` for an optional JSON/header string: None and "" are falsy
Falsy(x) == x.kind = "absent" \/ (x.kind = "string" /\ x.v = 0)

\* `x is None`
IsNone(x) == x.kind = "absent"

Abs(n) == IF n < 0 THEN 0 - n ELSE n

\* bcrypt: a salted one-way function; the digest depends on key and salt and
\* its values are disjoint from the key tokens
Crypt(key, salt) == Cardinality(Keys) + 1 + ((key + salt) % Cardinality(Keys))

hashpw(key, salt) == [salt |-> salt, digest |-> Crypt(key, salt)]

\* variant: any presented key is accepted
checkpw_AnyKey(key, hashed) == TRUE

checkpw(key, hashed) == hashpw(key, hashed.salt) = hashed

\* Station.query.get(id)
StationFound(id) == id \in DOMAIN stations

\* varchar(255) columns of Station
VarcharFits(x) == x.kind = "absent" \/ x.v <= VarcharMax

\* numeric(5,2) column of Reading: a non-numeric string or a value with more
\* than three integer digits is rejected by the INSERT
NumericFits(t) == t.kind = "number" /\ Abs(t.v) <= NumericMax

\* variant: the row is written twice
Insert_Twice(ledger, row) == Append(Append(ledger, row), row)

\* variant: the row overwrites the newest row of the ledger
Insert_Overwrite(ledger, row) ==
    IF ledger = <<>> THEN <<row>> ELSE [ledger EXCEPT ![Len(ledger)] = row]

Insert(ledger, row) == Append(ledger, row)

\* ---------------------------------------------------------------- routes
Response(status, body) == [status |-> status, body |-> body]

NoRequest == [op |-> "none"]

NoResponse == Response(0, [message |-> "none"])

Idle == req = NoRequest

Init ==
    /\ stations = <<>>
    /\ readings = <<>>
    /\ clock = 0
    /\ issued = <<>>
    /\ req = NoRequest
    /\ resp = NoResponse

\* GET /
index ==
    /\ Idle
    /\ req' = [op |-> "index"]
    /\ resp' = Response(200, [message |-> "Weather Station API is running!"])
    /\ UNCHANGED <<stations, readings, clock, issued>>

\* handler.hello: the demo function, no shared state with the API
hello ==
    /\ Idle
    /\ req' = [op |-> "hello"]
    /\ resp' = Response(200, [message |-> "Success! The CI/CD pipeline is working."])
    /\ UNCHANGED <<stations, readings, clock, issued>>

\* variant: only a missing name is refused, an empty one is not
NameMissing_NoneOnly(name) == IsNone(name)

\* `not data or not data.get('name')`
NameMissing(name) == Falsy(name)

NewStation(name, location_text, hashed_key) ==
    [name |-> name, location_text |-> location_text,
     api_key_hash |-> hashed_key]

CreatedBody(station_id, api_key_plain) ==
    [message |-> "Station created successfully. Save your API key!",
     station_id |-> station_id, api_key |-> api_key_plain]

\* str(e) of the failed INSERT carries the statement's parameters
CreateErrorBody(row) ==
    [error |-> "Could not create station", details |-> row]

\* uuid.uuid4() / os.urandom(24).hex() / bcrypt.gensalt(): a token no
\* station has yet
Smallest(tokens) == CHOOSE x \in tokens : \A y \in tokens : x <= y

FreshStationId == Smallest(StationIds \ DOMAIN stations)

FreshKey == Smallest(Keys \ {issued[s] : s \in DOMAIN issued})

\* the key and the salt generated for a station whose INSERT fails
DiscardedToken == MaxStations + 1

FreshSalt ==
    Smallest(Salts \ {stations[s].api_key_hash.salt : s \in DOMAIN stations})

\* POST /stations with body {name, location_text}
CreateStation(name, location_text) ==
    /\ Idle
    /\ req' = [op |-> "create_station", name |-> name, location_text |-> location_text]
    /\ IF NameMissing(name)
       THEN /\ resp' = Response(400, [error |-> "Station name is required"])
            /\ UNCHANGED <<stations, readings, clock, issued>>
       ELSE
         /\ Cardinality(DOMAIN stations) < MaxStations
         /\ LET station_id == FreshStationId
                api_key_plain == FreshKey
                row == NewStation(name, location_text, hashpw(api_key_plain, FreshSalt))
                discarded == NewStation(name, location_text,
                                        hashpw(DiscardedToken, DiscardedToken))
            IN IF VarcharFits(name) /\ VarcharFits(location_text)
               THEN /\ stations' = [s \in DOMAIN stations \cup {station_id} |->
                                      IF s = station_id THEN row ELSE stations[s]]
                    /\ issued' = [s \in DOMAIN issued \cup {station_id} |->
                                      IF s = station_id THEN api_key_plain ELSE issued[s]]
                    /\ resp' = Response(201, CreatedBody(station_id, api_key_plain))
                    /\ UNCHANGED <<readings, clock>>
               ELSE /\ resp' = Response(500, CreateErrorBody(discarded))
                    /\ UNCHANGED <<stations, readings, clock, issued>>

create_station ==
    \E name \in NameInputs, location_text \in LocationInputs :
        CreateStation(name, location_text)

\* `not data or not data.get('station_id') or
\*  data.get('temperature_celsius') is None`
FieldsMissing(station_id, temperature) == Falsy(station_id) \/ IsNone(temperature)

NewReading(station_id, temperature) ==
    [reading_id |-> Len(readings) + 1, station_id |-> station_id,
     temperature_celsius |-> temperature.v, timestamp |-> clock]

\* str(e) of the failed INSERT carries the statement's parameters
ReadingErrorBody(station_id, temperature) ==
    [error |-> "Could not save reading",
     details |-> [station_id |-> station_id, temperature_celsius |-> temperature]]

\* variant: an unknown station is reported as a failed key check
SubmitOutcome_NoLookup(api_key, station_id, temperature) ==
    IF Falsy(api_key) THEN "missing_key"
    ELSE IF FieldsMissing(station_id, temperature) THEN "missing_fields"
    ELSE IF ~StationFound(station_id.v) THEN "invalid_key"
    ELSE IF ~checkpw(api_key.v, stations[station_id.v].api_key_hash) THEN "invalid_key"
    ELSE IF ~NumericFits(temperature) THEN "store_error"
    ELSE "insert"

\* the order of the checks of submit_reading and the one that decides
SubmitOutcome(api_key, station_id, temperature) ==
    IF Falsy(api_key) THEN "missing_key"
    ELSE IF FieldsMissing(station_id, temperature) THEN "missing_fields"
    ELSE IF ~StationFound(station_id.v) THEN "not_found"
    ELSE IF ~checkpw(api_key.v, stations[station_id.v].api_key_hash) THEN "invalid_key"
    ELSE IF ~NumericFits(temperature) THEN "store_error"
    ELSE "insert"

\* POST /readings with header x-api-key and body {station_id, temperature_celsius}
SubmitReading(api_key, station_id, temperature) ==
    /\ Idle
    /\ \E outcome \in {SubmitOutcome(api_key, station_id, temperature)} :
           /\ outcome = "insert" => Len(readings) < MaxReadings
           /\ req' = [op |-> "submit_reading", api_key |-> api_key,
                      station_id |-> station_id, temperature_celsius |-> temperature]
           /\ resp' = CASE outcome = "missing_key" ->
                             Response(401, [error |-> "API key is missing"])
                        [] outcome = "missing_fields" ->
                             Response(400, [error |-> "station_id and temperature_celsius are required"])
                        [] outcome = "not_found" ->
                             Response(404, [error |-> "Station not found"])
                        [] outcome = "invalid_key" ->
                             Response(401, [error |-> "Invalid API key"])
                        [] outcome = "store_error" ->
                             Response(500, ReadingErrorBody(station_id.v, temperature))
                        [] outcome = "insert" ->
                             Response(201, [message |-> "Reading submitted successfully"])
           /\ readings' = IF outcome = "insert"
                          THEN Insert(readings, NewReading(station_id.v, temperature))
                          ELSE readings
           /\ UNCHANGED <<stations, clock, issued>>

submit_reading ==
    \E api_key \in ApiKeyInputs, station_id \in StationIdInputs,
       temperature \in TempInputs :
        SubmitReading(api_key, station_id, temperature)

\* ------------------------------------------------------ GET .../readings
\* filter_by(station_id=station_id): the positions of the station's rows
FilterByStation(station_id) ==
    {i \in 1..Len(readings) : readings[i].station_id = station_id}

\* variant: oldest first
OrderByTimestampDesc_Asc(rows) ==
    \A i, j \in 1..Len(rows) : i < j => rows[i].timestamp <= rows[j].timestamp

\* order_by(Reading.timestamp.desc()): rows with equal timestamps come in
\* any order
OrderByTimestampDesc(rows) ==
    \A i, j \in 1..Len(rows) : i < j => rows[i].timestamp >= rows[j].timestamp

\* the results .all() may return: the filtered rows, each once, in order
QueryAll(station_id) ==
    LET idx == FilterByStation(station_id)
        n == Cardinality(idx)
    IN {rows \in {[k \in 1..n |-> readings[p[k]]] :
                    p \in {q \in [1..n -> idx] : \A a, b \in 1..n : a # b => q[a] # q[b]}} :
            OrderByTimestampDesc(rows)}

\* float() of a numeric(5,2) value serialised by jsonify reads back as the
\* same two-decimal number; timestamps are serialised by isoformat()
ReadingJson(reading) ==
    [reading_id |-> reading.reading_id,
     temperature_celsius |-> reading.temperature_celsius,
     timestamp |-> reading.timestamp]

\* GET /stations/<station_id>/readings
GetReadings(station_id) ==
    /\ Idle
    /\ req' = [op |-> "get_readings", station_id |-> station_id]
    /\ IF ~StationFound(station_id)
       THEN resp' = Response(404, [error |-> "Station not found"])
       ELSE \E rows \in QueryAll(station_id) :
                resp' = Response(200, [output |-> [k \in 1..Len(rows) |-> ReadingJson(rows[k])]])
    /\ UNCHANGED <<stations, readings, clock, issued>>

get_readings == \E station_id \in StationIds : GetReadings(station_id)

\* ------------------------------------------------------- GET .../summary
\* float(Decimal) for the positive decimal n/1000: -1, 0 or 1 as the nearest
\* IEEE-754 double is below, equal to or above n/1000. The binary expansion
\* is produced by long division; `r` is the remainder (over 1000) and `bits`
\* the number of mantissa bits still to produce.
RECURSIVE FracBits(_, _, _)
FracBits(r, bits, last) ==
    IF bits = 0
    THEN IF r = 0 THEN 0
         ELSE IF 2 * r < 1000 THEN 0 - 1
         ELSE IF 2 * r > 1000 THEN 1
         ELSE IF last = 1 THEN 1 ELSE 0 - 1
    ELSE FracBits((2 * r) % 1000, bits - 1, (2 * r) \div 1000)

RECURSIVE BitLen(_)
BitLen(n) == IF n = 0 THEN 0 ELSE 1 + BitLen(n \div 2)

\* skip the zeros before the leading one of a value below 1
RECURSIVE LeadingBit(_)
LeadingBit(r) ==
    IF 2 * r < 1000 THEN LeadingBit(2 * r) ELSE FracBits(2 * r - 1000, 52, 1)

FloatError(n) ==
    IF n \div 1000 > 0
    THEN FracBits(n % 1000, 53 - BitLen(n \div 1000), (n \div 1000) % 2)
    ELSE LeadingBit(n % 1000)

\* round(float(avg), 2) for avg = sum/count >= 0 in hundredths: the
\* two-decimal number nearest to the double; only a quotient of the form
\* x.xx5 is close enough to a boundary for the double's error to decide
RoundFloat(sum, count) ==
    LET q == sum \div count
        r == sum % count
    IN IF 2 * r < count THEN q
       ELSE IF 2 * r > count THEN q + 1
       ELSE LET e == FloatError(10 * q + 5)
            IN IF e > 0 THEN q + 1
               ELSE IF e < 0 THEN q
               ELSE IF q % 2 = 0 THEN q ELSE q + 1

PyRound2(sum, count) ==
    IF sum < 0 THEN 0 - RoundFloat(0 - sum, count) ELSE RoundFloat(sum, count)

\* Reading.station_id == station_id, Reading.timestamp >= twenty_four_hours_ago
InWindow(station_id) ==
    {i \in 1..Len(readings) :
        /\ readings[i].station_id = station_id
        /\ readings[i].timestamp >= clock - WindowHours}

RECURSIVE SumOf(_)
SumOf(rows) ==
    IF rows = {} THEN 0
    ELSE LET i == CHOOSE x \in rows : TRUE
         IN readings[i].temperature_celsius + SumOf(rows \ {i})

MaxOf(rows) ==
    LET i == CHOOSE x \in rows : \A y \in rows :
                 readings[x].temperature_celsius >= readings[y].temperature_celsius
    IN readings[i].temperature_celsius

MinOf(rows) ==
    LET i == CHOOSE x \in rows : \A y \in rows :
                 readings[x].temperature_celsius <= readings[y].temperature_celsius
    IN readings[i].temperature_celsius

\* count / avg / max / min of the query; over no rows count is 0 and the
\* other three are NULL (null = TRUE). avg is kept exact as sum / count: the
\* database's numeric quotient is exact for x.xx5 and off by less than
\* 1e-16 otherwise
SummaryData(station_id) ==
    LET rows == InWindow(station_id)
    IN [count |-> Cardinality(rows),
        null |-> rows = {},
        sum |-> SumOf(rows),
        max |-> IF rows = {} THEN 0 ELSE MaxOf(rows),
        min |-> IF rows = {} THEN 0 ELSE MinOf(rows)]

\* variant: the empty window is not told apart
NoData_Never(summary_data) == FALSE

\* `not summary_data or summary_data[0] == 0`
NoData(summary_data) == summary_data.count = 0

\* variant: the station row's hash is serialised with the summary
SummaryBody_WithHash(station_id, summary_data) ==
    [station_id |-> station_id,
     reading_count |-> summary_data.count,
     api_key_hash |-> stations[station_id].api_key_hash,
     average_temp_last_24h |->
        IF ~summary_data.null /\ summary_data.sum # 0
        THEN PyRound2(summary_data.sum, summary_data.count) ELSE 0,
     max_temp_last_24h |->
        IF ~summary_data.null /\ summary_data.max # 0 THEN summary_data.max ELSE 0,
     min_temp_last_24h |->
        IF ~summary_data.null /\ summary_data.min # 0 THEN summary_data.min ELSE 0]

\* `x if summary_data[k] else 0`: None and Decimal zero are falsy
SummaryBody(station_id, summary_data) ==
    [station_id |-> station_id,
     reading_count |-> summary_data.count,
     average_temp_last_24h |->
        IF ~summary_data.null /\ summary_data.sum # 0
        THEN PyRound2(summary_data.sum, summary_data.count) ELSE 0,
     max_temp_last_24h |->
        IF ~summary_data.null /\ summary_data.max # 0 THEN summary_data.max ELSE 0,
     min_temp_last_24h |->
        IF ~summary_data.null /\ summary_data.min # 0 THEN summary_data.min ELSE 0]

\* GET /stations/<station_id>/summary
GetSummary(station_id) ==
    /\ Idle
    /\ req' = [op |-> "get_summary", station_id |-> station_id]
    /\ IF ~StationFound(station_id)
       THEN resp' = Response(404, [error |-> "Station not found"])
       ELSE \E summary_data \in {SummaryData(station_id)} :
               IF NoData(summary_data)
               THEN resp' = Response(200,
                        [message |-> "No readings for this station in the last 24 hours."])
               ELSE resp' = Response(200, SummaryBody(station_id, summary_data))
    /\ UNCHANGED <<stations, readings, clock, issued>>

get_summary == \E station_id \in StationIds : GetSummary(station_id)

\* ------------------------------------------------------------------ time
\* the response goes back to the client and the request ends
EndRequest ==
    /\ ~Idle
    /\ req' = NoRequest
    /\ resp' = NoResponse
    /\ UNCHANGED <<stations, readings, clock, issued>>

\* a window's length of time passes between two requests
Tick ==
    /\ Idle
    /\ clock + WindowHours <= Horizon
    /\ clock' = clock + WindowHours
    /\ UNCHANGED <<stations, readings, issued, req, resp>>

Next ==
    \/ index
    \/ hello
    \/ create_station
    \/ submit_reading
    \/ get_readings
    \/ get_summary
    \/ EndRequest
    \/ Tick

Spec == Init /\ [][Next]_vars


\* ================================================================ claims
\* A handler's step is the step that puts its request in flight: req' is the
\* request, the unprimed variables are the store it found, the primed ones
\* the store and the response it left.

HasField(body, f) == f \in DOMAIN body

Submitted == req'.op = "submit_reading"

\* the station_id of the body names a station of the store
NamesStation(station_id) == station_id.kind = "string" /\ station_id.v \in DOMAIN stations

\* the x-api-key header carries a value that is not the key issued to
\* station s (the empty value and any other station's key included)
WrongSecret(api_key, s) == api_key.kind = "string" /\ api_key.v # issued[s]

RightSecret(api_key, s) == api_key.kind = "string" /\ api_key.v = issued[s]

\* the rows of station s, and those no older than 24 hours, read off the
\* ledger without the query operators
RowsOf(s) == {i \in DOMAIN readings : readings[i].station_id = s}

Recent(s) == {i \in RowsOf(s) : clock - readings[i].timestamp <= 24}

RECURSIVE Total(_, _)
Total(rows, n) ==
    IF n = 0 THEN 0
    ELSE Total(rows, n - 1) + (IF n \in rows THEN readings[n].temperature_celsius ELSE 0)

\* sum / count in hundredths, rounded half away from zero and half to even
HalfUp(sum, count) ==
    IF sum < 0 THEN 0 - ((2 * (0 - sum) + count) \div (2 * count))
    ELSE (2 * sum + count) \div (2 * count)

HalfEvenMag(sum, count) ==
    LET q == sum \div count
        r == sum % count
    IN IF 2 * r < count THEN q
       ELSE IF 2 * r > count THEN q + 1
       ELSE IF q % 2 = 0 THEN q ELSE q + 1

HalfEven(sum, count) ==
    IF sum < 0 THEN 0 - HalfEvenMag(0 - sum, count) ELSE HalfEvenMag(sum, count)

AggregateFields ==
    {"reading_count", "average_temp_last_24h", "max_temp_last_24h", "min_temp_last_24h"}

\* ---- C1
\* C1 as stated: a POST /readings whose x-api-key is not the key of the
\* (existing) station named in the body returns 401 and adds no row, for
\* every request body.
C1_Original ==
    [][(/\ Submitted
        /\ NamesStation(req'.station_id)
        /\ WrongSecret(req'.api_key, req'.station_id.v))
       => (resp'.status = 401 /\ readings' = readings)]_vars

\* C1 amended: such a request never adds a row and leaves stations and the
\* summary of every station as they were, for every body; it returns 401 when the
\* header is empty or the body carries a temperature_celsius (numeric or
\* not), and 400 when the header is non-empty and temperature_celsius is
\* missing.
C1_WrongSecretWritesNothing ==
    [][(/\ Submitted
        /\ NamesStation(req'.station_id)
        /\ WrongSecret(req'.api_key, req'.station_id.v))
       => (/\ readings' = readings
           /\ stations' = stations
           /\ \A s \in DOMAIN stations : SummaryData(s)' = SummaryData(s)
           /\ resp'.status =
                IF req'.api_key.v # 0 /\ req'.temperature_celsius.kind = "absent"
                THEN 400 ELSE 401)]_vars

\* a submission carrying another station's key and a numeric temperature
\* was refused with 401
C1_Witness ==
    /\ req.op = "submit_reading"
    /\ NamesStation(req.station_id)
    /\ req.api_key.kind = "string"
    /\ \E s \in DOMAIN issued : s # req.station_id.v /\ issued[s] = req.api_key.v
    /\ req.temperature_celsius.kind = "number"
    /\ resp.status = 401

C3_Original ==
    [][(/\ Submitted
        /\ NamesStation(req'.station_id)
        /\ RightSecret(req'.api_key, req'.station_id.v)
        /\ req'.temperature_celsius.kind = "number")
       => (/\ resp'.status = 201
           /\ Len(readings') = Len(readings) + 1)]_vars

\* C3 amended: with the station's key and a numeric temperature within the
\* declared numeric(5,2) range (-999.99 .. 999.99) the request returns 201
\* and appends exactly one reading of that station with that temperature
\* and the current time; and every GET /stations/{id}/readings of an
\* existing station returns every reading the ledger holds for it.
C3_SubmitSucceeds ==
    [][/\ (/\ Submitted
           /\ NamesStation(req'.station_id)
           /\ RightSecret(req'.api_key, req'.station_id.v)
           /\ req'.temperature_celsius.kind = "number"
           /\ req'.temperature_celsius.v >= 0 - 99999
           /\ req'.temperature_celsius.v <= 99999)
          => (/\ resp'.status = 201
              /\ Len(readings') = Len(readings) + 1
              /\ SubSeq(readings', 1, Len(readings)) = readings
              /\ readings'[Len(readings')].station_id = req'.station_id.v
              /\ readings'[Len(readings')].temperature_celsius = req'.temperature_celsius.v
              /\ readings'[Len(readings')].timestamp = clock)
       /\ (req'.op = "get_readings" /\ req'.station_id \in DOMAIN stations)
          => (/\ resp'.status = 200
              /\ \A i \in RowsOf(req'.station_id) :
                    \E k \in DOMAIN resp'.body.output :
                        /\ resp'.body.output[k].reading_id = readings[i].reading_id
                        /\ resp'.body.output[k].temperature_celsius =
                             readings[i].temperature_celsius)]_vars

\* a reading was just accepted
C3_Witness ==
    /\ req.op = "submit_reading"
    /\ resp.status = 201
    /\ Len(readings) >= 1
    /\ readings[Len(readings)].station_id = req.station_id.v
    /\ readings[Len(readings)].temperature_celsius = req.temperature_celsius.v

\* ---- C4
\* C4: when the station exists and the set W of its readings of the last 24
\* hours is not empty, the summary carries reading_count = |W|, average =
\* sum(W)/|W| rounded to two decimals (half up or half to even, whichever
\* agrees), max = the largest and min = the smallest temperature of W.
C4_Summary ==
    [][(/\ req'.op = "get_summary"
        /\ req'.station_id \in DOMAIN stations
        /\ Recent(req'.station_id) # {})
       => LET W == Recent(req'.station_id)
              sum == Total(W, Len(readings))
              b == resp'.body
          IN /\ resp'.status = 200
             /\ HasField(b, "reading_count")
             /\ b.reading_count = Cardinality(W)
             /\ b.average_temp_last_24h \in
                   {HalfUp(sum, Cardinality(W)), HalfEven(sum, Cardinality(W))}
             /\ \E i \in W : b.max_temp_last_24h = readings[i].temperature_celsius
             /\ \A i \in W : b.max_temp_last_24h >= readings[i].temperature_celsius
             /\ \E i \in W : b.min_temp_last_24h = readings[i].temperature_celsius
             /\ \A i \in W : b.min_temp_last_24h <= readings[i].temperature_celsius]_vars

\* ---- C5
\* C5 as stated: with no reading in the window the summary is the no-data
\* message without aggregate fields; a summary with aggregate fields has
\* reading_count >= 1, and reports an average of 0 only for a non-empty
\* window whose true average is 0.
C5_Original ==
    [][(req'.op = "get_summary" /\ req'.station_id \in DOMAIN stations)
       => LET W == Recent(req'.station_id)
              b == resp'.body
          IN /\ resp'.status = 200
             /\ W = {} => (HasField(b, "message") /\ DOMAIN b \cap AggregateFields = {})
             /\ DOMAIN b \cap AggregateFields # {} =>
                   (/\ b.reading_count >= 1
                    /\ b.average_temp_last_24h = 0 =>
                          (W # {} /\ Total(W, Len(readings)) = 0))]_vars

\* C5 amended: as stated, except that an average of 0 is reported only for a
\* non-empty window whose true average is below 0.005 in magnitude (it
\* rounds to 0.00), not only for a true average of exactly 0.
C5_NoDataIsExplicit ==
    [][(req'.op = "get_summary" /\ req'.station_id \in DOMAIN stations)
       => LET W == Recent(req'.station_id)
              sum == Total(W, Len(readings))
              b == resp'.body
          IN /\ resp'.status = 200
             /\ W = {} => (HasField(b, "message") /\ DOMAIN b \cap AggregateFields = {})
             /\ DOMAIN b \cap AggregateFields # {} =>
                   (/\ b.reading_count >= 1
                    /\ b.average_temp_last_24h = 0 =>
                          (/\ W # {}
                           /\ 2 * sum < Cardinality(W)
                           /\ 2 * (0 - sum) < Cardinality(W)))]_vars

\* the no-data message was returned for a station whose readings are all
\* older than the window
C5_Witness ==
    /\ req.op = "get_summary"
    /\ req.station_id \in DOMAIN stations
    /\ RowsOf(req.station_id) # {}
    /\ Recent(req.station_id) = {}
    /\ resp.status = 200
    /\ HasField(resp.body, "message")

\* ---- C6
\* the plaintext keys and the stored hashes a response body carries, in its
\* own fields or in the parameters quoted by an error's details
KeysIn(body) ==
    (IF HasField(body, "api_key") THEN {body.api_key} ELSE {})
    \cup (IF HasField(body, "details") /\ HasField(body.details, "api_key")
          THEN {body.details.api_key} ELSE {})

HashesIn(body) ==
    (IF HasField(body, "api_key_hash") THEN {body.api_key_hash} ELSE {})
    \cup (IF HasField(body, "details") /\ HasField(body.details, "api_key_hash")
          THEN {body.details.api_key_hash} ELSE {})

\* C6: the plaintext key of a station appears only in the 201 response of
\* the POST /stations that created it; no other response carries it or the
\* stored hash; the station row holds the salted hash, which verifies the
\* key and is not the key.
C6_SecretShownOnce ==
    \A s \in DOMAIN stations :
        /\ issued[s] \in KeysIn(resp.body) =>
              (/\ req.op = "create_station"
               /\ resp.status = 201
               /\ resp.body.station_id = s)
        /\ stations[s].api_key_hash \notin HashesIn(resp.body)
        /\ DOMAIN stations[s] = {"name", "location_text", "api_key_hash"}
        /\ DOMAIN stations[s].api_key_hash = {"salt", "digest"}
        /\ stations[s].api_key_hash.digest # issued[s]
        /\ stations[s].api_key_hash.digest \notin Keys
        /\ \A k \in Keys :
              stations[s].api_key_hash = [salt |-> stations[s].api_key_hash.salt,
                                          digest |-> Crypt(k, stations[s].api_key_hash.salt)]
              <=> k = issued[s]

\* stations exist and the response in flight is an error of POST /stations
\* whose details quote a hash
C6_Witness ==
    /\ DOMAIN stations # {}
    /\ req.op = "create_station"
    /\ resp.status = 500
    /\ HashesIn(resp.body) # {}

\* ---- C7
\* C7: a POST /readings for an existing station with its key whose
\* temperature_celsius is missing or not a number returns 400 and writes no
\* reading.
C7_TemperatureValidated ==
    [][(/\ Submitted
        /\ NamesStation(req'.station_id)
        /\ RightSecret(req'.api_key, req'.station_id.v)
        /\ req'.temperature_celsius.kind # "number")
       => (resp'.status = 400 /\ readings' = readings)]_vars

\* ---- C8
\* C8: GET /stations/{id}/readings of an existing station returns 200 with
\* exactly the station's readings, each once, and every adjacent pair of the
\* sequence has the earlier element's timestamp >= the later one's.
C8_ReadingsNewestFirst ==
    [][(req'.op = "get_readings" /\ req'.station_id \in DOMAIN stations)
       => LET out == resp'.body.output
              rows == RowsOf(req'.station_id)
          IN /\ resp'.status = 200
             /\ Len(out) = Cardinality(rows)
             /\ \A i \in rows :
                   \E k \in DOMAIN out :
                       out[k] = [reading_id |-> readings[i].reading_id,
                                 temperature_celsius |-> readings[i].temperature_celsius,
                                 timestamp |-> readings[i].timestamp]
             /\ \A k \in DOMAIN out :
                   \E i \in rows : out[k].reading_id = readings[i].reading_id
             /\ \A k \in 1..(Len(out) - 1) :
                   out[k].timestamp >= out[k + 1].timestamp
             /\ readings' = readings]_vars

\* a list of at least two readings of different times was returned while
\* the ledger also holds another station's reading
C8_Witness ==
    /\ req.op = "get_readings"
    /\ resp.status = 200
    /\ Len(resp.body.output) >= 2
    /\ resp.body.output[1].timestamp > resp.body.output[2].timestamp
    /\ Len(readings) > Len(resp.body.output)

\* ---- C9
\* C9: POST /stations with an empty or absent name returns 400 and leaves
\* the set of stations (and their rows) as it was.
C9_EmptyNameRejected ==
    [][(/\ req'.op = "create_station"
        /\ \/ req'.name.kind = "absent"
           \/ (req'.name.kind = "string" /\ req'.name.v = 0))
       => (/\ resp'.status = 400
           /\ stations' = stations)]_vars

\* a creation with an empty name was refused while a station exists
C9_Witness ==
    /\ req.op = "create_station"
    /\ req.name.kind = "string"
    /\ req.name.v = 0
    /\ resp.status = 400
    /\ DOMAIN stations # {}

\* ---- C10
\* C10: in every reachable state every reading's station_id names exactly one
\* station of the store, and no step modifies or removes a reading or
\* removes a station: the ledger only grows at its end.
C10_LedgerAppendOnly ==
    /\ [](\A i \in DOMAIN readings :
             Cardinality({s \in DOMAIN stations : s = readings[i].station_id}) = 1)
    /\ [][/\ Len(readings') >= Len(readings)
          /\ \A i \in DOMAIN readings : readings'[i] = readings[i]
          /\ DOMAIN stations \subseteq DOMAIN stations']_vars

\* the ledger holds readings of two stations
C10_Witness ==
    /\ Len(readings) >= 2
    /\ \E i, j \in DOMAIN readings : readings[i].station_id # readings[j].station_id
====
